---------------------------- MODULE Spec2Model ----------------------------
(***************************************************************************)
(* exif-scripts: two command-line utilities around the exiftool program.   *)
(*                                                                         *)
(*   exif-from-filename.py  parses a date out of each *.jpg file name of   *)
(*                          a directory and writes it as the EXIF date.    *)
(*   exif-gps.py            sets the GPS position of one image, from       *)
(*                          --lat/--lon or copied from another image.      *)
(*                                                                         *)
(* Three specifications share the variables below:                         *)
(*   SpecDate   extract_date_from_filename applied to bounded path names   *)
(*   SpecBatch  main() of exif-from-filename.py over a directory listing   *)
(*   SpecGps    main() of exif-gps.py over its command-line arguments      *)
(*                                                                         *)
(* Text (file names, dates) is a sequence of one-character strings.        *)
(***************************************************************************)
EXTENDS Integers, Sequences, FiniteSets, TLC

VARIABLES
    pc,            \* position of the running program
    filename,      \* SpecDate: argument of extract_date_from_filename
    date_tuple,    \* SpecDate: its return value
    path_exists,   \* SpecBatch: os.path.exists(args.path)
    dir,           \* SpecBatch: names of the entries of args.path
    jpg_files,     \* SpecBatch: list returned by glob.glob
    idx,           \* SpecBatch: number of loop iterations completed
    processed,     \* SpecBatch: counter
    skipped,       \* SpecBatch: counter
    args,          \* SpecGps: parsed command-line arguments
    gps_data,      \* SpecGps: result of extract_gps_from_image
    validation,    \* SpecValidate: return value of validate_coordinates
    tool_calls,    \* exiftool invocations so far, in order
    console,       \* lines printed so far, in order
    exit_status    \* process exit status, None while running

vars == <<pc, filename, date_tuple, path_exists, dir, jpg_files, idx,
          processed, skipped, args, gps_data, validation, tool_calls, console,
          exit_status>>

\* the variables of the other program, which a program leaves alone
dateVars == <<filename, date_tuple>>

batchVars == <<path_exists, dir, jpg_files, idx, processed, skipped>>

gpsVars == <<args, gps_data, validation>>

ioVars == <<tool_calls, console, exit_status>>

\* Python's None, and an optional value: None or Some(v)
None == <<>>

Some(v) == <<v>>

-----------------------------------------------------------------------------
(* Text helpers                                                            *)

Digits == {"0", "1", "2", "3", "4", "5", "6", "7", "8", "9"}

\* \d of the re module
IsDigit(c) == c \in Digits

SetMin(S) == CHOOSE x \in S : \A y \in S : x <= y

SetMax(S) == CHOOSE x \in S : \A y \in S : x >= y

\* str.rfind(c) + 1: the 1-based index of the last c in s, 0 when there is none
LastIndexOf(s, c) ==
    LET hits == {i \in 1..Len(s) : s[i] = c}
    IN  IF hits = {} THEN 0 ELSE SetMax(hits)

\* posixpath.basename(p): i = p.rfind('/') + 1; return p[i:]
Basename(p) == SubSeq(p, LastIndexOf(p, "/") + 1, Len(p))

\* s[-n:] for 0 < n <= len(s)
LastChars(s, n) == SubSeq(s, Len(s) - n + 1, Len(s))

\* posixpath.join(a, b) for a relative b
PathJoin(a, b) ==
    IF a = <<>> \/ a[Len(a)] = "/" THEN a \o b ELSE a \o <<"/">> \o b

-----------------------------------------------------------------------------
(* exif-from-filename.py: extract_date_from_filename                       *)

\* n consecutive \d at positions i .. i+n-1 of s
DigitsAt(s, i, n) ==
    /\ i + n - 1 <= Len(s)
    /\ \A k \in i..(i + n - 1) : IsDigit(s[k])

\* a literal '-' at position i of s
HyphenAt(s, i) == i <= Len(s) /\ s[i] = "-"

\* the lookahead (?=\.[^.]+$) with the next character at position j: a dot,
\* then one or more characters none of which is a dot, up to the end
ExtLookahead(s, j) ==
    /\ j < Len(s)
    /\ s[j] = "."
    /\ \A k \in (j + 1)..Len(s) : s[k] # "."

\* -(\d{4})-(\d{2})-(\d{2})(?=\.[^.]+$) matching at position i
FullDateAt(s, i) ==
    /\ HyphenAt(s, i)
    /\ DigitsAt(s, i + 1, 4)
    /\ HyphenAt(s, i + 5)
    /\ DigitsAt(s, i + 6, 2)
    /\ HyphenAt(s, i + 8)
    /\ DigitsAt(s, i + 9, 2)
    /\ ExtLookahead(s, i + 11)

\* -(\d{4})-(\d{2})(?=\.[^.]+$) matching at position i
YearMonthAt(s, i) ==
    /\ HyphenAt(s, i)
    /\ DigitsAt(s, i + 1, 4)
    /\ HyphenAt(s, i + 5)
    /\ DigitsAt(s, i + 6, 2)
    /\ ExtLookahead(s, i + 8)

\* -(\d{4})(?=\.[^.]+$) matching at position i
YearAt(s, i) ==
    /\ HyphenAt(s, i)
    /\ DigitsAt(s, i + 1, 4)
    /\ ExtLookahead(s, i + 5)

\* re.search: of the positions where the pattern matches the leftmost one,
\* 0 for no match
Search(hits) == IF hits = {} THEN 0 ELSE SetMin(hits)

\* the body of extract_date_from_filename on an already chosen name
DateOfName(basename) ==
    LET positions        == 1..Len(basename)
        full_date_match  == Search({i \in positions : FullDateAt(basename, i)})
        year_month_match == Search({i \in positions : YearMonthAt(basename, i)})
        year_match       == Search({i \in positions : YearAt(basename, i)})
    IN  IF full_date_match # 0
        THEN <<SubSeq(basename, full_date_match + 1, full_date_match + 4),
               SubSeq(basename, full_date_match + 6, full_date_match + 7),
               SubSeq(basename, full_date_match + 9, full_date_match + 10)>>
        ELSE IF year_month_match # 0 /\ ~(full_date_match # 0)
        THEN <<SubSeq(basename, year_month_match + 1, year_month_match + 4),
               SubSeq(basename, year_month_match + 6, year_month_match + 7),
               <<"0", "1">> >>
        ELSE IF year_match # 0 /\ ~(year_month_match # 0)
        THEN <<SubSeq(basename, year_match + 1, year_match + 4),
               <<"0", "1">>, <<"0", "1">> >>
        ELSE None

\* faulty variant (C1): the patterns are searched in the whole path
extract_date_whole_path(file_path) == DateOfName(file_path)

\* extract_date_from_filename(filename): os.path.basename, then the three patterns in order
extract_date_from_filename(file_path) == DateOfName(Basename(file_path))

-----------------------------------------------------------------------------
(* SpecDate: the parser on bounded path names                              *)

\* path names are concatenations of at most MaxTokens of these pieces
MaxTokens == 4

Tokens ==
    { <<"a">>, <<"7">>, <<"-">>, <<".">>, <<"/">>,
      <<"1", "9", "8", "7">>,
      <<"-", "1", "9", "8", "7">>,
      <<"-", "0", "8">>,
      <<"-", "0", "3">>,
      <<".", "j", "p", "g">> }

RECURSIVE NamesUpTo(_)
NamesUpTo(n) ==
    IF n = 0 THEN {<<>>}
    ELSE LET shorter == NamesUpTo(n - 1)
         IN  shorter \cup {s \o t : s \in shorter, t \in Tokens}

PathNames == NamesUpTo(MaxTokens)

\* nothing scanned, nothing parsed, nothing run or printed
NoBatch ==
    /\ path_exists = FALSE
    /\ dir = {}
    /\ jpg_files = <<>>
    /\ idx = 0
    /\ processed = 0
    /\ skipped = 0

NoDateCall == filename = <<>> /\ date_tuple = <<>>

NoGps == args = None /\ gps_data = None /\ validation = None

NoIo == tool_calls = <<>> /\ console = <<>> /\ exit_status = None

InitDate ==
    /\ pc = "call"
    /\ filename \in PathNames
    /\ date_tuple = <<"unset">>
    /\ NoBatch /\ NoGps /\ NoIo

\* one call date_tuple = extract_date_from_filename(filename)
ExtractDate ==
    /\ pc = "call"
    /\ date_tuple' = extract_date_from_filename(filename)
    /\ pc' = "returned"
    /\ UNCHANGED <<filename, batchVars, gpsVars, ioVars>>

NextDate == ExtractDate

SpecDate == InitDate /\ [][NextDate]_vars

-----------------------------------------------------------------------------
(* exif-from-filename.py: update_exif_date and main                        *)

\* the stdout of an exiftool run that is not read
NoOutput == [json |-> FALSE, data |-> <<>>]

\* f"{year}:{month}:{day} 12:00:00"
DateString(date) ==
    date[1] \o <<":">> \o date[2] \o <<":">> \o date[3]
        \o <<" ", "1", "2", ":", "0", "0", ":", "0", "0">>

\* the command of update_exif_date, with the exit status of its run
DateCommand(file_path, date, returncode) ==
    [kind |-> "write_date",
     file |-> file_path,
     tags |-> << <<"DateTimeOriginal", DateString(date)>>,
                 <<"CreateDate", DateString(date)>>,
                 <<"ModifyDate", DateString(date)>> >>,
     flags |-> {"-overwrite_original"},
     returncode |-> returncode,
     output |-> NoOutput]

\* fnmatch of a directory entry against "*.jpg" as glob.glob applies it:
\* the name ends in ".jpg"; a name starting with a dot is hidden from "*"
GlobJpg(name) ==
    /\ Len(name) >= 4
    /\ LastChars(name, 4) = <<".", "j", "p", "g">>
    /\ name[1] # "."

\* the lists glob.glob may return for the directory: its matching entries,
\* joined to the path, in an order the file system chooses
GlobResults(path, entries) ==
    LET found == {PathJoin(path, n) : n \in {e \in entries : GlobJpg(e)}}
        k     == Cardinality(found)
    IN  {l \in [1..k -> found] : \A i, j \in 1..k : l[i] = l[j] => i = j}

\* faulty variant (C9): a file whose update fails is not counted at all
loop_body_failure_uncounted(jpg_file, returncode, p, s) ==
    LET date == extract_date_from_filename(jpg_file)
    IN  IF date # None
        THEN IF returncode = 0
             THEN [processed |-> p + 1, skipped |-> s,
                   calls |-> <<DateCommand(jpg_file, date, returncode)>>,
                   lines |-> << <<"Extracted", jpg_file, date>>,
                                <<"Updated", jpg_file, date>> >>]
             ELSE [processed |-> p, skipped |-> s,
                   calls |-> <<DateCommand(jpg_file, date, returncode)>>,
                   lines |-> << <<"Extracted", jpg_file, date>>,
                                <<"Failed", jpg_file>> >>]
        ELSE [processed |-> p, skipped |-> s + 1,
              calls |-> <<>>,
              lines |-> << <<"NoDate", jpg_file>> >>]

\* one iteration of main's loop on jpg_file, exiftool (when it is run)
\* ending with returncode: the counters after it, the invocations made and the
\* lines printed
loop_body(jpg_file, returncode, p, s) ==
    LET date == extract_date_from_filename(jpg_file)
    IN  IF date # None
        THEN IF returncode = 0
             THEN [processed |-> p + 1, skipped |-> s,
                   calls |-> <<DateCommand(jpg_file, date, returncode)>>,
                   lines |-> << <<"Extracted", jpg_file, date>>,
                                <<"Updated", jpg_file, date>> >>]
             ELSE [processed |-> p, skipped |-> s + 1,
                   calls |-> <<DateCommand(jpg_file, date, returncode)>>,
                   lines |-> << <<"Extracted", jpg_file, date>>,
                                <<"Failed", jpg_file>> >>]
        ELSE [processed |-> p, skipped |-> s + 1,
              calls |-> <<>>,
              lines |-> << <<"NoDate", jpg_file>> >>]

-----------------------------------------------------------------------------
(* SpecBatch: main() of exif-from-filename.py                              *)

\* args.path
DirPath == <<"d">>

FileA == <<"a", "-", "2", "0", "0", "0", "-", "0", "1", "-", "1", "5", ".", "j", "p", "g">>

FileB == <<"b", "-", "2", "0", "0", "0", ".", "j", "p", "e", "g">>

FileC == <<"c", ".", "p", "n", "g">>

FileD == <<"d", ".", "j", "p", "g">>

FileE == <<"e", "-", "1", "9", "9", "9", ".", "J", "P", "G">>

FileG == <<"g", "-", "1", "9", "8", "7", "-", "0", "8", ".", "j", "p", "g">>

FileH == <<".", "h", "-", "2", "0", "0", "1", ".", "j", "p", "g">>

\* the entries a scanned directory is drawn from
Entries == {FileA, FileB, FileC, FileD, FileE, FileG, FileH}

\* exit statuses of a finished exiftool run: success and failure
ReturnCodes == {0, 1}

InitBatch ==
    /\ pc = "start"
    /\ path_exists \in BOOLEAN
    /\ dir \in SUBSET Entries
    /\ path_exists = FALSE => dir = {}
    /\ jpg_files = <<>>
    /\ idx = 0
    /\ processed = 0
    /\ skipped = 0
    /\ tool_calls = <<>>
    /\ console = <<>>
    /\ exit_status = None
    /\ NoDateCall /\ NoGps

\* main up to the loop: the path check, the glob, the empty-list return
Scan ==
    /\ pc = "start"
    /\ IF ~path_exists
       THEN /\ console' = Append(console, <<"PathMissing">>)
            /\ exit_status' = Some(1)
            /\ pc' = "done"
            /\ UNCHANGED jpg_files
       ELSE \E l \in GlobResults(DirPath, dir) :
               /\ jpg_files' = l
               /\ IF Len(l) = 0
                  THEN /\ console' = Append(console, <<"NoFiles">>)
                       /\ exit_status' = Some(0)
                       /\ pc' = "done"
                  ELSE /\ console' = Append(console, <<"Found", Len(l)>>)
                       /\ exit_status' = exit_status
                       /\ pc' = "loop"
    /\ UNCHANGED <<dateVars, gpsVars, path_exists, dir, idx, processed,
                   skipped, tool_calls>>

\* one iteration of the for loop
ProcessFile ==
    /\ pc = "loop"
    /\ idx < Len(jpg_files)
    /\ \E returncode \in ReturnCodes :
          LET r == loop_body(jpg_files[idx + 1], returncode, processed, skipped)
          IN  /\ processed' = r.processed
              /\ skipped' = r.skipped
              /\ tool_calls' = tool_calls \o r.calls
              /\ console' = console \o r.lines
    /\ idx' = idx + 1
    /\ UNCHANGED <<pc, dateVars, gpsVars, path_exists, dir, jpg_files,
                   exit_status>>

\* the summary line after the loop, and the normal return
Summary ==
    /\ pc = "loop"
    /\ idx = Len(jpg_files)
    /\ console' = Append(console, <<"Summary", processed, skipped>>)
    /\ exit_status' = Some(0)
    /\ pc' = "done"
    /\ UNCHANGED <<dateVars, gpsVars, batchVars, tool_calls>>

NextBatch == Scan \/ ProcessFile \/ Summary

SpecBatch == InitBatch /\ [][NextBatch]_vars

-----------------------------------------------------------------------------
(* exif-gps.py: validate_coordinates, extract_gps_from_image,              *)
(* update_gps_data                                                         *)
(*                                                                         *)
(* A coordinate is a number of ten-thousandths of a degree, so that        *)
(* -90.0001 and 90 are both exact.                                         *)

\* d degrees
Deg(d) == d * 10000

\* abs()
Abs(x) == IF x < 0 THEN -x ELSE x

LatitudeMessage == "Latitude must be between -90 and 90 degrees"

LongitudeMessage == "Longitude must be between -180 and 180 degrees"

\* faulty variant (C6): the bounds themselves are refused
validate_coordinates_strict(lat, lon) ==
    IF lat # None /\ (lat[1] <= -Deg(90) \/ lat[1] >= Deg(90))
    THEN <<FALSE, LatitudeMessage>>
    ELSE IF lon # None /\ (lon[1] <= -Deg(180) \/ lon[1] >= Deg(180))
    THEN <<FALSE, LongitudeMessage>>
    ELSE <<TRUE, "Valid coordinates">>

\* validate_coordinates(lat, lon), each None or Some(number)
validate_coordinates(lat, lon) ==
    IF lat # None /\ (lat[1] < -Deg(90) \/ lat[1] > Deg(90))
    THEN <<FALSE, LatitudeMessage>>
    ELSE IF lon # None /\ (lon[1] < -Deg(180) \/ lon[1] > Deg(180))
    THEN <<FALSE, LongitudeMessage>>
    ELSE <<TRUE, "Valid coordinates">>

\* os.path.exists on the paths of a run
ExistingFiles == {"img.jpg", "src.jpg"}

Exists(path) == path \in ExistingFiles

\* dict.get(key, default) on a record whose absent keys hold None
Get(field, default) == IF field = None THEN default ELSE field[1]

\* the exiftool query of extract_gps_from_image; output is what the run wrote
\* to stdout
ReadCommand(source_image, returncode, output) ==
    [kind |-> "read_gps",
     file |-> source_image,
     tags |-> << <<"GPSLatitude">>, <<"GPSLongitude">>,
                 <<"GPSLatitudeRef">>, <<"GPSLongitudeRef">> >>,
     flags |-> {"-j", "-n"},
     returncode |-> returncode,
     output |-> output]

\* extract_gps_from_image(source_image) when its exiftool run ends with
\* returncode and stdout: the dict returned (None on every failure) and the
\* invocations made. stdout.json tells whether json.loads accepts the text,
\* stdout.data is the decoded list of records.
extract_gps_from_image(source_image, returncode, stdout) ==
    IF ~Exists(source_image)
    THEN [gps_data |-> None, calls |-> <<>>]
    ELSE LET call == <<ReadCommand(source_image, returncode, stdout)>>
         IN  IF returncode # 0 \/ ~stdout.json \/ stdout.data = <<>>
             THEN [gps_data |-> None, calls |-> call]
             ELSE LET first == stdout.data[1]
                  IN  IF first.GPSLatitude # None /\ first.GPSLongitude # None
                      THEN LET lat     == first.GPSLatitude[1]
                               lon     == first.GPSLongitude[1]
                               lat_ref == Get(first.GPSLatitudeRef, "N")
                               lon_ref == Get(first.GPSLongitudeRef, "E")
                           IN  [gps_data |->
                                  Some([latitude |-> lat,
                                        longitude |-> lon,
                                        latitude_ref |-> lat_ref,
                                        longitude_ref |-> lon_ref,
                                        signed_latitude |->
                                            IF lat_ref = "S" THEN -lat ELSE lat,
                                        signed_longitude |->
                                            IF lon_ref = "W" THEN -lon ELSE lon]),
                                calls |-> call]
                      ELSE [gps_data |-> None, calls |-> call]

\* faulty variant (C8): zero is taken for the southern and western hemisphere
gps_tags_zero_negative(latitude, longitude, lat_ref, lon_ref) ==
    IF lat_ref = None \/ lon_ref = None
    THEN << <<"GPSLatitude", Abs(latitude)>>,
            <<"GPSLatitudeRef", IF latitude > 0 THEN "N" ELSE "S">>,
            <<"GPSLongitude", Abs(longitude)>>,
            <<"GPSLongitudeRef", IF longitude > 0 THEN "E" ELSE "W">> >>
    ELSE << <<"GPSLatitude", latitude>>,
            <<"GPSLatitudeRef", lat_ref[1]>>,
            <<"GPSLongitude", longitude>>,
            <<"GPSLongitudeRef", lon_ref[1]>> >>

\* faulty variant (C7): the reference letters given are ignored and derived from the sign
gps_tags_always_derived(latitude, longitude, lat_ref, lon_ref) ==
    << <<"GPSLatitude", Abs(latitude)>>,
       <<"GPSLatitudeRef", IF latitude >= 0 THEN "N" ELSE "S">>,
       <<"GPSLongitude", Abs(longitude)>>,
       <<"GPSLongitudeRef", IF longitude >= 0 THEN "E" ELSE "W">> >>

\* the tag assignments update_gps_data passes to exiftool; lat_ref and
\* lon_ref are None or Some(letter)
gps_tags(latitude, longitude, lat_ref, lon_ref) ==
    IF lat_ref = None \/ lon_ref = None
    THEN << <<"GPSLatitude", Abs(latitude)>>,
            <<"GPSLatitudeRef", IF latitude >= 0 THEN "N" ELSE "S">>,
            <<"GPSLongitude", Abs(longitude)>>,
            <<"GPSLongitudeRef", IF longitude >= 0 THEN "E" ELSE "W">> >>
    ELSE << <<"GPSLatitude", latitude>>,
            <<"GPSLatitudeRef", lat_ref[1]>>,
            <<"GPSLongitude", longitude>>,
            <<"GPSLongitudeRef", lon_ref[1]>> >>

\* update_gps_data(image_path, latitude, longitude, lat_ref, lon_ref) when its
\* exiftool run ends with returncode: the value returned and the invocations
update_gps_data(image_path, latitude, longitude, lat_ref, lon_ref, returncode) ==
    IF ~Exists(image_path)
    THEN [ok |-> FALSE, calls |-> <<>>]
    ELSE [ok |-> returncode = 0,
          calls |-> << [kind |-> "write_gps",
                        file |-> image_path,
                        tags |-> gps_tags(latitude, longitude, lat_ref, lon_ref),
                        flags |-> {"-overwrite_original"},
                        returncode |-> returncode,
                        output |-> NoOutput] >>]

-----------------------------------------------------------------------------
(* SpecValidate: validate_coordinates on bounded arguments                 *)

LatValues ==
    {-Deg(90) - 1, -Deg(90), -Deg(45), 0, Deg(90), Deg(90) + 1, Deg(91)}

LonValues ==
    {-Deg(180) - 1, -Deg(180), 0, Deg(100), Deg(180), Deg(180) + 1}

Optional(S) == {None} \cup {Some(v) : v \in S}

\* values beyond the ones main can pass, for the function on its own
WideValues == LatValues \cup LonValues \cup {-Deg(91), Deg(181), -Deg(200)}

InitValidate ==
    /\ pc = "call"
    /\ args \in [lat : Optional(WideValues), lon : Optional(WideValues)]
    /\ validation = None
    /\ gps_data = None
    /\ NoDateCall /\ NoBatch /\ NoIo

\* one call validation = validate_coordinates(lat, lon)
Validate ==
    /\ pc = "call"
    /\ validation' = Some(validate_coordinates(args.lat, args.lon))
    /\ pc' = "returned"
    /\ UNCHANGED <<dateVars, batchVars, args, gps_data, ioVars>>

NextValidate == Validate

SpecValidate == InitValidate /\ [][NextValidate]_vars

-----------------------------------------------------------------------------
(* SpecGps: main() of exif-gps.py                                          *)

\* values of --from and of the positional image argument
Sources == {"", "missing.jpg", "src.jpg"}

Images == {"img.jpg", "absent.jpg"}

\* the records exiftool -j may print for an image: each field present or not
GpsRecords ==
    [GPSLatitude     : Optional({0, Deg(45), -Deg(33)}),
     GPSLongitude    : Optional({0, Deg(100)}),
     GPSLatitudeRef  : Optional({"N", "S"}),
     GPSLongitudeRef : Optional({"E", "W"})]

\* a second record, which extract_gps_from_image never reads
OtherRecord ==
    [GPSLatitude |-> Some(Deg(10)), GPSLongitude |-> Some(Deg(20)),
     GPSLatitudeRef |-> Some("N"), GPSLongitudeRef |-> Some("E")]

\* what a finished query may have written to stdout
Stdouts ==
    {[json |-> FALSE, data |-> <<>>], [json |-> TRUE, data |-> <<>>]}
        \cup {[json |-> TRUE, data |-> <<r>>] : r \in GpsRecords}
        \cup {[json |-> TRUE, data |-> <<r, OtherRecord>>] : r \in GpsRecords}

\* faulty variant (C5): --lat and --from are not declared mutually exclusive
argparse_rejects_nothing(a) == a.lat = None /\ a.source_image = None

\* parse_args() on the required mutually exclusive group {--lat, --from}:
\* an error when both options are given and when neither is
argparse_rejects(a) ==
    \/ a.lat # None /\ a.source_image # None
    \/ a.lat = None /\ a.source_image = None

\* truth value of args.source_image
Truthy(source_image) == source_image # None /\ source_image[1] # ""

InitGps ==
    /\ pc = "start"
    /\ args \in [lat : Optional(LatValues), lon : Optional(LonValues),
                 source_image : Optional(Sources), image : Images]
    /\ gps_data = None
    /\ validation = None
    /\ NoDateCall /\ NoBatch /\ NoIo

Exit(status, line) ==
    /\ exit_status' = Some(status)
    /\ console' = Append(console, line)
    /\ pc' = "done"

\* main from parse_args to the choice of the case: the argument checks and,
\* with --lat and --lon, the validation
CheckArguments ==
    /\ pc = "start"
    /\ IF argparse_rejects(args)
       THEN Exit(2, <<"usage">>) /\ UNCHANGED validation
       ELSE IF args.lat # None /\ args.lon = None
       THEN Exit(2, <<"--lat requires --lon">>) /\ UNCHANGED validation
       ELSE IF ~Exists(args.image)
       THEN Exit(1, <<"ImageMissing">>) /\ UNCHANGED validation
       ELSE IF args.lat # None /\ args.lon # None
       THEN /\ validation' = Some(validate_coordinates(args.lat, args.lon))
            /\ IF validation'[1][1]
               THEN /\ pc' = "set"
                    /\ console' = Append(console, <<"Setting">>)
                    /\ UNCHANGED exit_status
               ELSE Exit(1, <<"Error", validation'[1][2]>>)
       ELSE IF Truthy(args.source_image)
       THEN /\ pc' = "extract"
            /\ console' = Append(console, <<"Copying">>)
            /\ UNCHANGED <<exit_status, validation>>
       ELSE \* neither case applies: main returns
            /\ pc' = "done"
            /\ exit_status' = Some(0)
            /\ UNCHANGED <<console, validation>>
    /\ UNCHANGED <<dateVars, batchVars, args, gps_data, tool_calls>>

\* case 1: update_gps_data(args.image, args.lat, args.lon)
SetGps ==
    /\ pc = "set"
    /\ \E returncode \in ReturnCodes :
          LET r == update_gps_data(args.image, args.lat[1], args.lon[1],
                                   None, None, returncode)
          IN  /\ tool_calls' = tool_calls \o r.calls
              /\ IF r.ok
                 THEN Exit(0, <<"Updated">>)
                 ELSE Exit(1, <<"Failed">>)
    /\ UNCHANGED <<dateVars, batchVars, gpsVars>>

\* case 2, first half: extract_gps_from_image(args.source_image)
ExtractGps ==
    /\ pc = "extract"
    /\ \E returncode \in ReturnCodes, stdout \in Stdouts :
          LET r == extract_gps_from_image(args.source_image[1], returncode, stdout)
          IN  /\ gps_data' = r.gps_data
              /\ tool_calls' = tool_calls \o r.calls
              /\ IF r.gps_data # None
                 THEN /\ pc' = "copy"
                      /\ console' = Append(console, <<"Found">>)
                      /\ UNCHANGED exit_status
                 ELSE Exit(1, <<"NoGps">>)
    /\ UNCHANGED <<dateVars, batchVars, args, validation>>

\* case 2, second half: update_gps_data with the reference letters read
CopyGps ==
    /\ pc = "copy"
    /\ \E returncode \in ReturnCodes :
          LET g == gps_data[1]
              r == update_gps_data(args.image, g.latitude, g.longitude,
                                   Some(g.latitude_ref), Some(g.longitude_ref),
                                   returncode)
          IN  /\ tool_calls' = tool_calls \o r.calls
              /\ IF r.ok
                 THEN Exit(0, <<"Copied">>)
                 ELSE Exit(1, <<"Failed">>)
    /\ UNCHANGED <<dateVars, batchVars, gpsVars>>

NextGps == CheckArguments \/ SetGps \/ ExtractGps \/ CopyGps

SpecGps == InitGps /\ [][NextGps]_vars

-----------------------------------------------------------------------------
(* Properties of the parser (SpecDate)                                     *)

\* the path's last component: the longest suffix free of '/'
LastComponent(p) ==
    LET n == SetMax({k \in 0..Len(p) :
                        \A j \in (Len(p) - k + 1)..Len(p) : p[j] # "/"})
    IN  SubSeq(p, Len(p) - n + 1, Len(p))

\* b reads stem '.' ext with a non-empty ext that holds no dot
HasExtension(b) ==
    \E d \in 1..(Len(b) - 1) :
        b[d] = "." /\ \A k \in (d + 1)..Len(b) : b[k] # "."

\* what precedes the final extension
StemOf(b) ==
    LET d == CHOOSE e \in 1..(Len(b) - 1) :
                 b[e] = "." /\ \A k \in (e + 1)..Len(b) : b[k] # "."
    IN  SubSeq(b, 1, d - 1)

\* shapes of the three date suffixes: "-" a hyphen, "d" a digit
FullShape == <<"-", "d", "d", "d", "d", "-", "d", "d", "-", "d", "d">>

YearMonthShape == <<"-", "d", "d", "d", "d", "-", "d", "d">>

YearShape == <<"-", "d", "d", "d", "d">>

EndsWithShape(s, shape) ==
    /\ Len(s) >= Len(shape)
    /\ \A k \in 1..Len(shape) :
          LET c == LastChars(s, Len(shape))[k]
          IN  IF shape[k] = "d" THEN IsDigit(c) ELSE c = "-"

\* the date the priority rule assigns to a path
DateByRule(p) ==
    LET b == LastComponent(p)
    IN  IF ~HasExtension(b) THEN None
        ELSE LET stem == StemOf(b)
             IN  IF EndsWithShape(stem, FullShape)
                 THEN LET t == LastChars(stem, 11)
                      IN  <<SubSeq(t, 2, 5), SubSeq(t, 7, 8), SubSeq(t, 10, 11)>>
                 ELSE IF EndsWithShape(stem, YearMonthShape)
                 THEN LET t == LastChars(stem, 8)
                      IN  <<SubSeq(t, 2, 5), SubSeq(t, 7, 8), <<"0", "1">> >>
                 ELSE IF EndsWithShape(stem, YearShape)
                 THEN LET t == LastChars(stem, 5)
                      IN  <<SubSeq(t, 2, 5), <<"0", "1">>, <<"0", "1">> >>
                 ELSE None

\* C1: for every path, extract_date_from_filename returns the result of the
\* first of '-YYYY-MM-DD', '-YYYY-MM', '-YYYY' found at the end of the stem of
\* the last path component, right before its final extension: (Y, M, D),
\* (Y, M, "01"), (Y, "01", "01"), else no date; directories are not matched.
C1_PriorityOrder ==
    pc = "returned" => date_tuple = DateByRule(filename)

\* C1 witness: a name ending in a full date, returned with its own month and
\* day, which differ from each other and from the default "01"
C1_Witness ==
    /\ pc = "returned"
    /\ HasExtension(LastComponent(filename))
    /\ EndsWithShape(StemOf(LastComponent(filename)), FullShape)
    /\ date_tuple # None
    /\ date_tuple[2] = <<"0", "8">>
    /\ date_tuple[3] = <<"0", "3">>

\* the stem is a bare date with nothing before it: YYYY-MM
BareYearMonth(stem) ==
    /\ Len(stem) = 7
    /\ \A k \in 1..4 : IsDigit(stem[k])
    /\ stem[5] = "-"
    /\ \A k \in 6..7 : IsDigit(stem[k])

\* C2: a name that consists only of the date, as the docstring's
\* '1987-03.jpg', yields (year, month, "01") like a name with a prefix.
C2_BareDateExtracted ==
    (/\ pc = "returned"
     /\ HasExtension(LastComponent(filename))
     /\ BareYearMonth(StemOf(LastComponent(filename))))
    => date_tuple = <<SubSeq(StemOf(LastComponent(filename)), 1, 4),
                      SubSeq(StemOf(LastComponent(filename)), 6, 7),
                      <<"0", "1">> >>

-----------------------------------------------------------------------------
(* Properties of the batch date updater (SpecBatch)                        *)

\* the files the loop has handled so far
Handled == {jpg_files[k] : k \in 1..idx}

\* positions of the console lines of one kind about file f
LinesOf(kind, f) ==
    {i \in 1..Len(console) : console[i][1] = kind /\ console[i][2] = f}

\* positions of the exiftool invocations on file f
CallsFor(f) == {i \in 1..Len(tool_calls) : tool_calls[i].file = f}

CountedProcessed(f) ==
    /\ Cardinality(LinesOf("Updated", f)) = 1
    /\ LinesOf("Failed", f) = {}
    /\ LinesOf("NoDate", f) = {}

CountedSkipped(f) ==
    /\ LinesOf("Updated", f) = {}
    /\ Cardinality(LinesOf("Failed", f)) + Cardinality(LinesOf("NoDate", f)) = 1

ExtensionOf(b) == SubSeq(b, Len(StemOf(b)) + 2, Len(b))

\* image extensions, case variants included
ImageExtensions ==
    { <<"j", "p", "g">>, <<"J", "P", "G">>,
      <<"j", "p", "e", "g">>, <<"J", "P", "E", "G">> }

HasImageExtension(name) ==
    HasExtension(name) /\ ExtensionOf(name) \in ImageExtensions

\* C3: the files considered are exactly the directory's entries with an image
\* extension, case variants included; for a directory holding
\* a-2000-01-15.jpg, b-2000.jpeg and c.png two files are considered, and when
\* exiftool succeeds on both the summary reports processed 2, skipped 0.
C3_ImageFilesConsidered ==
    (pc \in {"loop", "done"} /\ path_exists) =>
        /\ {jpg_files[k] : k \in 1..Len(jpg_files)}
              = {PathJoin(DirPath, n) : n \in {e \in dir : HasImageExtension(e)}}
        /\ dir = {FileA, FileB, FileC} =>
              /\ Len(jpg_files) = 2
              /\ (/\ pc = "done"
                  /\ \A i \in 1..Len(tool_calls) : tool_calls[i].returncode = 0)
                 => console[Len(console)] = <<"Summary", 2, 0>>

-----------------------------------------------------------------------------
(* Properties of validate_coordinates (SpecValidate)                       *)

InRange(v, low, high) == low <= v /\ v <= high

LatitudeOk(lat) == lat = None \/ InRange(lat[1], -Deg(90), Deg(90))

LongitudeOk(lon) == lon = None \/ InRange(lon[1], -Deg(180), Deg(180))

-----------------------------------------------------------------------------
(* Properties of the GPS setter (SpecGps)                                  *)

\* positions of the invocations of one kind
CallsOfKind(kind) == {i \in 1..Len(tool_calls) : tool_calls[i].kind = kind}

\* an explicit coordinate outside its range, in the --lat/--lon mode
ExplicitOutOfRange ==
    /\ args.lat # None
    /\ args.lon # None
    /\ ~(LatitudeOk(args.lat) /\ LongitudeOk(args.lon))

BothLatAndFrom == args.lat # None /\ args.source_image # None

\* the run ended on the rejection of its arguments
ArgumentsRejected ==
    /\ pc = "done"
    /\ \/ exit_status = Some(2)
       \/ console # <<>> /\ console[Len(console)][1] = "Error"

\* a latitude or longitude option whose value is outside its range, whatever
\* the other options are
AnyOptionOutOfRange == ~LatitudeOk(args.lat) \/ ~LongitudeOk(args.lon)

LetterRead(field, default) == IF field = None THEN default ELSE field[1]

\* C7: in a copy, the magnitudes and reference letters passed to the write
\* are the ones read from the first record of the source (a letter the record
\* lacks reads as the default N / E), unchanged and never derived from a sign,
\* also for a magnitude of 0 with reference S or W.
C7_CopyPreservesReferences ==
    \A w \in CallsOfKind("write_gps") :
        \A r \in CallsOfKind("read_gps") :
            LET first == tool_calls[r].output.data[1]
                tags  == tool_calls[w].tags
            IN  /\ r < w
                /\ tool_calls[w].file = args.image
                /\ tags[1] = <<"GPSLatitude", first.GPSLatitude[1]>>
                /\ tags[2] = <<"GPSLatitudeRef",
                               LetterRead(first.GPSLatitudeRef, "N")>>
                /\ tags[3] = <<"GPSLongitude", first.GPSLongitude[1]>>
                /\ tags[4] = <<"GPSLongitudeRef",
                               LetterRead(first.GPSLongitudeRef, "E")>>

\* C7 witness: a copy of latitude 0 S, longitude 0 W has been written
C7_Witness ==
    \E w \in CallsOfKind("write_gps") :
        /\ CallsOfKind("read_gps") # {}
        /\ tool_calls[w].tags[1] = <<"GPSLatitude", 0>>
        /\ tool_calls[w].tags[2] = <<"GPSLatitudeRef", "S">>
        /\ tool_calls[w].tags[3] = <<"GPSLongitude", 0>>
        /\ tool_calls[w].tags[4] = <<"GPSLongitudeRef", "W">>
        /\ tool_calls[w].returncode = 0

\* C8: with signed values and no reference letters (--lat/--lon) the write
\* carries the absolute values, N for a latitude >= 0 and S below, E for a
\* longitude >= 0 and W below; exactly 0 maps to N / E.
C8_SignedToReference ==
    (CallsOfKind("read_gps") = {}) =>
        \A w \in CallsOfKind("write_gps") :
            LET tags == tool_calls[w].tags
                lat  == args.lat[1]
                lon  == args.lon[1]
            IN  /\ tags[1][2] >= 0 /\ tags[1][2] \in {lat, -lat}
                /\ tags[3][2] >= 0 /\ tags[3][2] \in {lon, -lon}
                /\ tags[2][2] = "N" <=> lat >= 0
                /\ tags[2][2] = "S" <=> lat < 0
                /\ tags[4][2] = "E" <=> lon >= 0
                /\ tags[4][2] = "W" <=> lon < 0
                /\ lat = 0 => tags[2][2] = "N"
                /\ lon = 0 => tags[4][2] = "E"

\* C8 witness: --lat 0 with a negative --lon has been written as 0 N, W
C8_Witness ==
    /\ CallsOfKind("read_gps") = {}
    /\ args.lat = Some(0)
    /\ \E w \in CallsOfKind("write_gps") :
          /\ tool_calls[w].tags[2][2] = "N"
          /\ tool_calls[w].tags[4][2] = "W"
          /\ tool_calls[w].tags[3][2] = Deg(180)

\* the copy source failed: missing, unreadable or without GPS data
CopySourceFailed ==
    /\ args.lat = None
    /\ args.source_image # None
    /\ Exists(args.image)
    /\ gps_data = None

\* C4 (GPS setter): status 0 on normal completion; status 1 when the target
\* image does not exist, a coordinate is out of range, --lat is given without
\* --lon, or the copy source fails.
C4_ExitStatus ==
    (pc = "done" /\ ~argparse_rejects(args)) =>
        /\ (args.lat # None /\ args.lon = None) => exit_status = Some(1)
        /\ ~Exists(args.image) => exit_status = Some(1)
        /\ ExplicitOutOfRange => exit_status = Some(1)
        /\ CopySourceFailed => exit_status = Some(1)
        /\ (\E w \in CallsOfKind("write_gps") : tool_calls[w].returncode = 0)
              => exit_status = Some(0)

\* C10: a run that gets past argument parsing and ends with status 0 has made
\* exactly one successful write on the target image.
C10_StatusZeroMeansWritten ==
    (pc = "done" /\ exit_status = Some(0)) =>
        /\ Cardinality(CallsOfKind("write_gps")) = 1
        /\ \A w \in CallsOfKind("write_gps") :
              /\ tool_calls[w].file = args.image
              /\ tool_calls[w].returncode = 0

=============================================================================
